---- MODULE Spec2Model ----
(***************************************************************************)
(* Model of the mkdocs build hooks under docs/hooks:                       *)
(*   combine-repos.py        (Repository Merger, on_pre_build)             *)
(*   resolve_terms.py        (Terminology Linker, on_pre_build and         *)
(*                            on_page_markdown)                            *)
(*   add-checklists-banner.py (Banner Injector, on_page_markdown)          *)
(*   fix-serve-watch.py      (Watch-List Patcher, on_serve)                *)
(*                                                                         *)
(* Text (file contents, paths, markdown) is a sequence of atoms.  The      *)
(* characters the code's patterns look at ("#", "/", ".", " ", newline,    *)
(* digits) are atoms of their own; every other atom is a word that holds   *)
(* none of them.  A path is the atoms of str(path): "docs/MASVS/a.md" is   *)
(* <<"docs", "/", "MASVS", "/", "a", ".", "md">>.                          *)
(***************************************************************************)
EXTENDS Integers, Sequences, FiniteSets, TLC

VARIABLES
    fs,        \* the file system: [dirs: set of paths, files: path -> content]
    config,    \* the mkdocs config: [extra: key -> value, terms: ...]
    phase,     \* where the build is: "start", "merged", "ready", "aborted"
    builds,    \* number of merges (combine-repos on_pre_build) completed
    prev,      \* the docs tree as it was when the last merge started
    log,       \* what the last on_pre_build of combine-repos logged and raised
    watched,   \* the live-reload server's watched paths
    served,    \* whether on_serve has run
    page,      \* the last page passed through an on_page_markdown hook
    scenario   \* the inputs Init drew (never changed)

vars == <<fs, config, phase, builds, prev, log, watched, served, page, scenario>>

-----------------------------------------------------------------------------
(* Bounds of the model *)

MaxBuilds == 2
MaxControlLen == 3
MaxLeftoverLen == 4
MaxTerms == 2
MaxPathLen == 4

-----------------------------------------------------------------------------
(* Text *)

NL == "\n"
None == <<"<None>">>

Truthy(v) == v # None /\ v # <<>>

StartsAt(s, p, i) ==
    /\ i >= 1
    /\ i + Len(p) - 1 <= Len(s)
    /\ \A k \in 1..Len(p) : s[i + k - 1] = p[k]

Contains(s, p) == \E i \in 1..(Len(s) + 1) : StartsAt(s, p, i)

StartsWith(s, p) == StartsAt(s, p, 1)

EndsWith(s, p) == Len(p) <= Len(s) /\ StartsAt(s, p, Len(s) - Len(p) + 1)

\* str.replace(old, new): the non-overlapping occurrences, left to right
RECURSIVE ReplaceFrom(_, _, _, _)
ReplaceFrom(s, old, new, i) ==
    IF i > Len(s) THEN <<>>
    ELSE IF StartsAt(s, old, i)
         THEN new \o ReplaceFrom(s, old, new, i + Len(old))
         ELSE <<s[i]>> \o ReplaceFrom(s, old, new, i + 1)

StrReplace(s, old, new) == ReplaceFrom(s, old, new, 1)

IsSpace(c) == c \in {" ", NL}

\* str.strip()
Strip(s) ==
    LET keep == {i \in 1..Len(s) : ~IsSpace(s[i])}
    IN IF keep = {} THEN <<>>
       ELSE LET lo == CHOOSE i \in keep : \A j \in keep : i <= j
                hi == CHOOSE i \in keep : \A j \in keep : i >= j
            IN SubSeq(s, lo, hi)

\* v named x in Body: v is evaluated once, however often Body reads x
Bind(v, Body(_)) == CHOOSE r \in {Body(x) : x \in {v}} : TRUE

\* Sequences over alphabet of length at most n
SeqsUpTo(alphabet, n) == UNION {[1..k -> alphabet] : k \in 0..n}

-----------------------------------------------------------------------------
(* Paths (pathlib.Path, os.path) *)

Cwd == <<>>

\* Path(a) / b
Join(a, b) == IF a = Cwd THEN b ELSE a \o <<"/">> \o b

Md(stem) == stem \o <<".", "md">>

SlashPositions(p) == {i \in 1..Len(p) : p[i] = "/"}

LastSlash(p) ==
    IF SlashPositions(p) = {} THEN 0
    ELSE CHOOSE i \in SlashPositions(p) : \A j \in SlashPositions(p) : j <= i

\* Path.name, os.path.basename
Name(p) == SubSeq(p, LastSlash(p) + 1, Len(p))

\* Path.parent
Parent(p) == SubSeq(p, 1, LastSlash(p) - 1)

\* every proper ancestor directory of p
Ancestors(p) == {SubSeq(p, 1, i - 1) : i \in SlashPositions(p)}

\* Path.stem, os.path.splitext(name)[0]: the name up to its last "."
Stem(name) ==
    LET dots == {i \in 2..Len(name) : name[i] = "."}
    IN IF dots = {} THEN name
       ELSE SubSeq(name, 1, (CHOOSE i \in dots : \A j \in dots : j <= i) - 1)

\* p lies below the directory base
Under(p, base) ==
    /\ Len(p) > Len(base) + 1
    /\ SubSeq(p, 1, Len(base)) = base
    /\ p[Len(base) + 1] = "/"

\* p relative to base, with its leading "/"
RelTail(p, base) == SubSeq(p, Len(base) + 1, Len(p))

\* the glob pattern "*.md" on a name
IsMdName(p) == EndsWith(Name(p), <<".", "md">>)

-----------------------------------------------------------------------------
(* The file system *)

Exists(f, p) == p \in f.dirs \/ p \in DOMAIN f.files

IsDir(f, p) == p \in f.dirs

IsFile(f, p) == p \in DOMAIN f.files

EmptyFs == [dirs |-> {}, files |-> <<>>]

\* Path.mkdir(parents=True, exist_ok=True)
Mkdirs(f, d) ==
    IF d = Cwd THEN f ELSE [f EXCEPT !.dirs = @ \cup {d} \cup Ancestors(d)]

\* shutil.rmtree(d)
Rmtree(f0, d) ==
    Bind(f0, LAMBDA f :
    LET gone(p) == p = d \/ Under(p, d)
    IN [dirs |-> {p \in f.dirs : ~gone(p)},
        files |-> [p \in {q \in DOMAIN f.files : ~gone(q)} |-> f.files[p]]])

\* Path.write_text / shutil.copy onto the file path p
WriteFile(f0, p, content0) ==
    Bind(f0, LAMBDA f : Bind(content0, LAMBDA content :
    [f EXCEPT !.files = [q \in (DOMAIN f.files) \cup {p} |->
                            IF q = p THEN content ELSE f.files[q]]]))

\* the files of f with every file below src also at the same place below dst
CopyFilesBelow(f0, src, dst) ==
    Bind(f0, LAMBDA f :
    Bind({p \in DOMAIN f.files : Under(p, src)}, LAMBDA srcFiles :
    Bind({dst \o RelTail(p, src) : p \in srcFiles}, LAMBDA newFiles :
        [q \in (DOMAIN f.files) \cup newFiles |->
            IF q \in newFiles
            THEN f.files[CHOOSE p \in srcFiles : dst \o RelTail(p, src) = q]
            ELSE f.files[q]])))

\* shutil.copytree(src, dst, dirs_exist_ok=True), src an existing directory
Copytree(f0, src, dst) ==
    Bind(f0, LAMBDA f :
    [dirs  |-> f.dirs \cup {dst \o RelTail(d, src) :
                               d \in {x \in f.dirs : x = src \/ Under(x, src)}}
                      \cup Ancestors(dst),
     files |-> CopyFilesBelow(f, src, dst)])

\* Path(base).rglob("*.md")
RglobMd(f, base) == {p \in DOMAIN f.files : Under(p, base) /\ IsMdName(p)}

\* the children of directory d
Children(f, d) ==
    {p \in f.dirs \cup DOMAIN f.files : Under(p, d) /\ Parent(p) = d}

\* the part of the file system below (and including) base
Subtree(f, base) ==
    [dirs  |-> {d \in f.dirs : d = base \/ Under(d, base)},
     files |-> [p \in {q \in DOMAIN f.files : Under(q, base)} |-> f.files[p]]]

\* apply replace_in_file(p, old, new) to every file of targets
ReplaceInFiles(f0, targets0, old, new) ==
    Bind(f0, LAMBDA f : Bind(targets0, LAMBDA targets :
    [f EXCEPT !.files = [p \in DOMAIN f.files |->
        IF p \in targets THEN StrReplace(f.files[p], old, new) ELSE f.files[p]]]))

-----------------------------------------------------------------------------
(* combine-repos.py *)

DocsDir == <<"docs">>

NoErr == [raised |-> FALSE, what |-> "", paths |-> <<>>]

Raise(st, what, paths) ==
    [st EXCEPT !.err = [raised |-> TRUE, what |-> what, paths |-> paths]]

Logged(st, level, event, path) ==
    [st EXCEPT !.log = Append(@, [level |-> level, event |-> event, path |-> path])]

RepoCandidates(repo_name) ==
    << <<"repos", "/">> \o repo_name,      \* Path("repos") / repo_name
       <<".", ".", "/">> \o repo_name,     \* Path("..") / repo_name
       repo_name >>                        \* Path(".") / repo_name

\* a variant of the pick below that takes the last directory among the candidates
LastDirCandidate(f, candidates) ==
    LET hits == {i \in 1..Len(candidates) : IsDir(f, candidates[i])}
    IN IF hits = {} THEN None
       ELSE candidates[CHOOSE i \in hits : \A j \in hits : j <= i]

\* the candidate next(...) picks: the first that is a directory, or None
FirstDirCandidate(f, candidates) ==
    LET hits == {i \in 1..Len(candidates) : IsDir(f, candidates[i])}
    IN IF hits = {} THEN None
       ELSE candidates[CHOOSE i \in hits : \A j \in hits : i <= j]

\* locate_external_repo: [st, ret]; raises when no candidate is a directory
locate_external_repo(st, repo_name) ==
    LET repo_candidates == RepoCandidates(repo_name)
    IN Bind(FirstDirCandidate(st.fs, repo_candidates), LAMBDA repo_location :
       IF repo_location = None
       THEN [st  |-> Raise(st, "Could not find repository", repo_candidates),
             ret |-> None]
       ELSE [st  |-> Logged(st, "info", "using", repo_location),
             ret |-> repo_location])

\* clean_and_copy(source, destination)
clean_and_copy(st0, source, destination) ==
    Bind(st0, LAMBDA st :
    IF st.err.raised THEN st
    ELSE
    Bind(Mkdirs(IF Exists(st.fs, destination) THEN Rmtree(st.fs, destination)
                ELSE st.fs,
                Parent(destination)), LAMBDA f2 :
       IF ~Exists(f2, source)
       THEN Logged([st EXCEPT !.fs = Mkdirs(f2, destination)],
                   "warning", "source-missing", source)
       ELSE IF ~IsDir(f2, source)
       THEN Raise([st EXCEPT !.fs = f2], "NotADirectoryError", <<source>>)
       ELSE [st EXCEPT !.fs = Copytree(f2, source, destination)]))

\* find_md_files(base_dir)
find_md_files(f, base_dir) ==
    {p \in RglobMd(f, base_dir) :
        /\ ~Contains(p, <<"/", "node_modules", "/">>)
        /\ ~Contains(p, <<"/", ".">>)}

\* batch_replace(filepaths, replacements), replacements a sequence of pairs
RECURSIVE batch_replace(_, _, _)
batch_replace(f, filepaths0, replacements) ==
    Bind(filepaths0, LAMBDA filepaths :
    IF replacements = <<>> THEN f
    ELSE batch_replace(
            ReplaceInFiles(f, filepaths, Head(replacements)[1], Head(replacements)[2]),
            filepaths, Tail(replacements)))

SrcImages == <<"src=\"", "Images", "/">>
DocumentSlash == <<"Document", "/">>
ImagesSlash == <<"images", "/">>
MastgSlash == <<"MASTG", "/">>

\* "../" repeated n times
RECURSIVE Ups(_)
Ups(n) == IF n = 0 THEN <<>> ELSE <<".", ".", "/">> \o Ups(n - 1)

\* structure_maswe(docs_dir): [st, ret]
structure_maswe(st0, docs_dir) ==
    LET maswe_local_dir == Join(docs_dir, <<"MASWE">>)
    IN
    Bind(locate_external_repo(st0, <<"maswe">>), LAMBDA loc :
    IF loc.st.err.raised THEN [st |-> loc.st, ret |-> None]
    ELSE
    Bind(clean_and_copy(loc.st, Join(loc.ret, <<"weaknesses">>), maswe_local_dir),
         LAMBDA st1 :
    IF st1.err.raised THEN [st |-> st1, ret |-> None]
    ELSE [st  |-> [st1 EXCEPT !.fs =
                      batch_replace(st1.fs, find_md_files(st1.fs, maswe_local_dir),
                                    << <<DocumentSlash, MastgSlash>> >>)],
          ret |-> loc.ret]))

\* re.search(r"## Control\n\n([^#]*)\n\n", content).group(1): the leftmost
\* heading after which a run of non-"#" text holds a blank line; the group is
\* greedy, so it ends at the last blank line of the run.  None: no match.
ControlHeading == <<"#", "#", " ", "Control", NL, NL>>

ControlGroupEnds(content, i) ==
    LET j0 == i + Len(ControlHeading)
    IN {e \in j0..(Len(content) - 1) :
           /\ content[e] = NL /\ content[e + 1] = NL
           /\ \A k \in j0..(e + 1) : content[k] # "#"}

SearchControl(content) ==
    LET starts == {i \in 1..Len(content) :
                      /\ StartsAt(content, ControlHeading, i)
                      /\ ControlGroupEnds(content, i) # {}}
    IN IF starts = {} THEN None
       ELSE LET i  == CHOOSE x \in starts : \A y \in starts : x <= y
                es == ControlGroupEnds(content, i)
                e  == CHOOSE x \in es : \A y \in es : y <= x
            IN SubSeq(content, i + Len(ControlHeading), e - 1)

\* re.search(r"## Description\n\n(.*)", content).group(1): "." stops at a newline
DescriptionHeading == <<"#", "#", " ", "Description", NL, NL>>

SearchDescription(content) ==
    LET starts == {i \in 1..Len(content) : StartsAt(content, DescriptionHeading, i)}
    IN IF starts = {} THEN None
       ELSE LET i   == CHOOSE x \in starts : \A y \in starts : x <= y
                j0  == i + Len(DescriptionHeading)
                nls == {k \in j0..Len(content) : content[k] = NL}
                e   == IF nls = {} THEN Len(content) + 1
                       ELSE CHOOSE x \in nls : \A y \in nls : x <= y
            IN SubSeq(content, j0, e - 1)

ParaOpen == "<p style=\"font-size: 2em\">"
ParaClose == "</p>"
BlueRule == "<hr style=\"height: 0.2em; background-color: #499FFF; border: 0;\" />"

\* the page the controls loop writes
ControlPage(control_id, control_content, description_content) ==
    <<"#", " ">> \o control_id \o <<NL, NL>>
    \o <<ParaOpen>> \o control_content \o <<ParaClose, NL, NL>>
    \o <<BlueRule, NL, NL>>
    \o description_content \o <<NL>>

\* whether the controls loop can rewrite the page (both searches match)
ControlPageMatches(content) ==
    SearchControl(content) # None /\ SearchDescription(content) # None

PrettifyControl(md_path, content) ==
    ControlPage(Stem(Name(md_path)),
                Strip(SearchControl(content)),
                Strip(SearchDescription(content)))

\* Path(masvs_local_dir).rglob("controls/*.md")
RglobControlsMd(f, base) ==
    {p \in RglobMd(f, base) :
        Under(Parent(p), base) /\ Name(Parent(p)) = <<"controls">>}

\* the test that picks the deeper image prefix
InControlsPath(md_path) == Contains(md_path, <<"controls">>)

MasvsImagesDeep == Ups(3) \o <<"assets", "/", "MASVS", "/", "Images", "/">>
MasvsImagesShallow == Ups(2) \o <<"assets", "/", "MASVS", "/", "Images", "/">>

MasvsImagePrefix(md_path) ==
    IF InControlsPath(md_path) THEN MasvsImagesDeep ELSE MasvsImagesShallow

\* structure_masvs(docs_dir): [st, ret].  written: the controls pages the loop
\* rewrote before it reached one that does not match (all of them when every
\* page matches); rglob's order is the file system's.
structure_masvs(st0, docs_dir, written) ==
    LET masvs_local_dir  == Join(docs_dir, <<"MASVS">>)
        masvs_images_dir == Join(Join(Join(docs_dir, <<"assets">>), <<"MASVS">>),
                                 <<"Images">>)
        images           == Join(masvs_local_dir, <<"images">>)
    IN
    Bind(locate_external_repo(st0, <<"masvs">>), LAMBDA loc :
    IF loc.st.err.raised THEN [st |-> loc.st, ret |-> None]
    ELSE
    Bind(clean_and_copy(
            clean_and_copy(loc.st, Join(loc.ret, <<"Document">>), masvs_local_dir),
            Join(loc.ret, <<"controls">>), Join(masvs_local_dir, <<"controls">>)),
         LAMBDA st2 :
    IF st2.err.raised THEN [st |-> st2, ret |-> None]
    ELSE
    Bind(Mkdirs(st2.fs, masvs_images_dir), LAMBDA f3 :
    IF ~IsDir(f3, images)
    THEN [st  |-> Raise([st2 EXCEPT !.fs = f3],
                        IF Exists(f3, images) THEN "NotADirectoryError"
                        ELSE "FileNotFoundError", <<images>>),
          ret |-> None]
    ELSE
    Bind(Copytree(f3, images, masvs_images_dir), LAMBDA f4 :
    Bind(RglobMd(f4, masvs_local_dir), LAMBDA mds :
    Bind([f4 EXCEPT !.files = [p \in DOMAIN f4.files |->
             IF p \in mds
             THEN StrReplace(f4.files[p], ImagesSlash, MasvsImagePrefix(p))
             ELSE f4.files[p]]], LAMBDA f5 :
    Bind(RglobControlsMd(f5, masvs_local_dir), LAMBDA pages :
    Bind({p \in pages : ~ControlPageMatches(f5.files[p])}, LAMBDA bad :
    Bind(IF bad = {} THEN pages ELSE written \cap (pages \ bad), LAMBDA done :
    Bind([f5 EXCEPT !.files = [p \in DOMAIN f5.files |->
             IF p \in done THEN PrettifyControl(p, f5.files[p])
             ELSE f5.files[p]]], LAMBDA f6 :
    IF bad # {}
    THEN [st  |-> Raise([st2 EXCEPT !.fs = f6], "AttributeError", <<>>),
          ret |-> None]
    ELSE [st |-> [st2 EXCEPT !.fs = f6], ret |-> loc.ret]))))))))))

MastgDirectories ==
    << <<"knowledge">>, <<"tests">>, <<"techniques">>, <<"tools">>, <<"apps">>,
       <<"demos">>, <<"rules">>, <<"utils">>, <<"best-practices">> >>

\* the keys of rel_paths, in order
MastgImageSubdirs ==
    << <<"knowledge">>, <<"tests">>, <<"techniques">>, <<"tools">>, <<"apps">>,
       <<"best-practices">>, <<"demos">> >>

MastgSubdirImages == <<"src=\"">> \o Ups(5) \o <<"assets", "/", "Images", "/">>
MastgGenericImages == <<"src=\"">> \o Ups(3) \o <<"assets", "/", "Images", "/">>

MinimalIndex ==
    <<"#", " ", "Mobile Application Security Testing Guide", NL, NL,
      "This is the MASTG index page.", NL>>

\* for d in directories: clean_and_copy(mastg_repo_dir / d, mastg_local_dir / d)
RECURSIVE CopyDirectories(_, _, _, _)
CopyDirectories(st, names, repo_dir, local_dir) ==
    IF names = <<>> THEN st
    ELSE CopyDirectories(
            clean_and_copy(st, Join(repo_dir, Head(names)), Join(local_dir, Head(names))),
            Tail(names), repo_dir, local_dir)

\* the tests-beta loop: every file below tests_beta_dir lands at the same
\* relative path below mastg_local_dir / "tests"
CopyBetaTests(f0, tests_beta_dir, tests_dir) ==
    Bind(f0, LAMBDA f :
    [dirs  |-> f.dirs \cup UNION {Ancestors(tests_dir \o RelTail(p, tests_beta_dir)) :
                                     p \in {q \in DOMAIN f.files : Under(q, tests_beta_dir)}},
     files |-> CopyFilesBelow(f, tests_beta_dir, tests_dir)])

\* document_dir.glob("0x0*.md")
GlobChapters(f, document_dir) ==
    {p \in Children(f, document_dir) : StartsWith(Name(p), <<"0x0">>) /\ IsMdName(p)}

CopyChapters(f0, document_dir, local_dir) ==
    Bind(f0, LAMBDA f :
    Bind({p \in GlobChapters(f, document_dir) : IsFile(f, p)}, LAMBDA chapters :
    Bind({Join(local_dir, Name(p)) : p \in chapters}, LAMBDA newFiles :
    [f EXCEPT !.files = [q \in (DOMAIN f.files) \cup newFiles |->
        IF q \in newFiles
        THEN f.files[CHOOSE p \in chapters : Join(local_dir, Name(p)) = q]
        ELSE f.files[q]]])))

\* for subdir, rel_img in rel_paths.items(): batch_replace(find_md_files(...), ...)
RECURSIVE FixSubdirImages(_, _, _)
FixSubdirImages(f0, subdirs, local_dir) ==
    Bind(f0, LAMBDA f :
    IF subdirs = <<>> THEN f
    ELSE FixSubdirImages(
            batch_replace(f, find_md_files(f, Join(local_dir, Head(subdirs))),
                          << <<SrcImages, MastgSubdirImages>> >>),
            Tail(subdirs), local_dir))

\* structure_mastg(docs_dir): [st, ret]; the function has no return statement
structure_mastg(st0, docs_dir) ==
    LET mastg_local_dir == Join(docs_dir, <<"MASTG">>)
        images_dir      == Join(Join(docs_dir, <<"assets">>), <<"Images">>)
        local_index     == Join(mastg_local_dir, Md(<<"index">>))
    IN
    Bind(locate_external_repo(st0, <<"mastg">>), LAMBDA loc :
    IF loc.st.err.raised THEN [st |-> loc.st, ret |-> None]
    ELSE
    Bind(CopyDirectories(
            [loc.st EXCEPT !.fs = Mkdirs(Mkdirs(@, mastg_local_dir), images_dir)],
            MastgDirectories, loc.ret, mastg_local_dir), LAMBDA st2 :
    IF st2.err.raised THEN [st |-> st2, ret |-> None]
    ELSE
    Bind(IF Exists(st2.fs, Join(loc.ret, <<"tests-beta">>))
         THEN CopyBetaTests(st2.fs, Join(loc.ret, <<"tests-beta">>),
                            Join(mastg_local_dir, <<"tests">>))
         ELSE st2.fs, LAMBDA f3 :
    LET document_dir == IF Exists(f3, Join(loc.ret, <<"Document">>))
                        THEN Join(loc.ret, <<"Document">>)
                        ELSE Join(loc.ret, <<"docs">>)
        index      == Join(document_dir, Md(<<"index">>))
        minimal    == ~Exists(f3, document_dir) \/ ~Exists(f3, index)
        images_src == Join(document_dir, <<"Images">>)
    IN
    IF ~minimal /\ ~IsFile(f3, index)
    THEN [st  |-> Raise([st2 EXCEPT !.fs = f3], "IsADirectoryError", <<index>>),
          ret |-> None]
    ELSE
    Bind(IF minimal THEN Logged(st2, "warning", "minimal-index", document_dir)
         ELSE st2, LAMBDA st3 :
    Bind(IF minimal THEN WriteFile(f3, local_index, MinimalIndex)
         ELSE WriteFile(f3, local_index, f3.files[index]), LAMBDA f4 :
    IF \E p \in GlobChapters(f4, document_dir) : ~IsFile(f4, p)
    THEN [st  |-> Raise([st3 EXCEPT !.fs = f4], "IsADirectoryError", <<>>),
          ret |-> None]
    ELSE
    Bind(IF Exists(f4, document_dir)
         THEN CopyChapters(f4, document_dir, mastg_local_dir)
         ELSE f4, LAMBDA f5 :
    IF Exists(f5, images_src) /\ ~IsDir(f5, images_src)
    THEN [st  |-> Raise([st3 EXCEPT !.fs = f5], "NotADirectoryError", <<images_src>>),
          ret |-> None]
    ELSE
    Bind(IF Exists(f5, images_src) THEN Copytree(f5, images_src, images_dir)
         ELSE Mkdirs(f5, images_dir), LAMBDA f6 :
    Bind(FixSubdirImages(f6, MastgImageSubdirs, mastg_local_dir), LAMBDA f7 :
    [st  |-> [(IF Exists(f5, images_src) THEN st3
               ELSE Logged(st3, "warning", "images-missing", images_src))
                 EXCEPT !.fs = batch_replace(f7, find_md_files(f7, mastg_local_dir),
                                  << <<SrcImages, MastgGenericImages>>,
                                     <<DocumentSlash, <<>> >> >>)],
     ret |-> None]))))))))

\* on_pre_build(config) of combine-repos.py: [st, config]
combine_on_pre_build(st0, cfg, written) ==
    LET docs_dir == DocsDir
    IN
    Bind(structure_mastg(st0, docs_dir), LAMBDA mastg :
    IF mastg.st.err.raised THEN [st |-> mastg.st, config |-> cfg]
    ELSE
    Bind(structure_maswe(mastg.st, docs_dir), LAMBDA maswe :
    IF maswe.st.err.raised THEN [st |-> maswe.st, config |-> cfg]
    ELSE
    Bind(structure_masvs(maswe.st, docs_dir, written), LAMBDA masvs :
    IF masvs.st.err.raised THEN [st |-> masvs.st, config |-> cfg]
       ELSE [st     |-> masvs.st,
             config |-> [cfg EXCEPT !.extra =
                            [k \in (DOMAIN cfg.extra)
                                     \cup {"mastg_repo", "maswe_repo", "masvs_repo"} |->
                                IF k = "mastg_repo" THEN mastg.ret
                                ELSE IF k = "maswe_repo" THEN maswe.ret
                                ELSE IF k = "masvs_repo" THEN masvs.ret
                                ELSE cfg.extra[k]]]])))

-----------------------------------------------------------------------------
(* resolve_terms.py *)

\* the lines of a text (str.split on newline)
RECURSIVE LinesFrom(_, _, _)
LinesFrom(s, i, cur) ==
    IF i > Len(s) THEN <<cur>>
    ELSE IF s[i] = NL THEN <<cur>> \o LinesFrom(s, i + 1, <<>>)
    ELSE LinesFrom(s, i + 1, Append(cur, s[i]))

Lines(s) == LinesFrom(s, 1, <<>>)

\* next(yaml.load_all(content)): the first document, a block of "key: value"
\* lines that ends at the first "---" line after an optional opening one
FrontMatterLines(content) ==
    LET all   == Lines(content)
        body  == IF Len(all) > 0 /\ all[1] = <<"---">> THEN Tail(all) ELSE all
        ends  == {i \in 1..Len(body) : body[i] = <<"---">>}
        n     == IF ends = {} THEN Len(body)
                 ELSE (CHOOSE i \in ends : \A j \in ends : i <= j) - 1
    IN SubSeq(body, 1, n)

\* frontmatter.get(key): the value of the last "key:" line, None without one or
\* for an empty value
FrontMatterGet(content, key) ==
    LET ls   == FrontMatterLines(content)
        hits == {i \in 1..Len(ls) : StartsWith(ls[i], <<key, ":">>)}
    IN IF hits = {} THEN None
       ELSE LET l == ls[CHOOSE i \in hits : \A j \in hits : j <= i]
                v == Strip(SubSeq(l, 3, Len(l)))
            IN IF v = <<>> THEN None ELSE v

TermsDir == <<"docs", "/", "MASTG", "/", "terms">>

\* glob.glob("docs/MASTG/terms/MASTG-TERM-*.md")
GlobTermFiles(f) ==
    {p \in Children(f, TermsDir) : StartsWith(Name(p), <<"MASTG-TERM-">>) /\ IsMdName(p)}

\* the record get_terms builds for one file
TermRecord(f, file) ==
    LET rel_path        == SubSeq(file, Len(DocsDir) + 2, Len(file))
        rel_path_no_ext == Join(Parent(rel_path), Stem(Name(rel_path)))
    IN [url      |-> <<"/">> \o rel_path_no_ext \o <<"/">>,
        title    |-> FrontMatterGet(f.files[file], "title"),
        nist_url |-> FrontMatterGet(f.files[file], "nist"),
        cwe_url  |-> FrontMatterGet(f.files[file], "cwe")]

\* get_terms(): the dict as a sequence of items in insertion order, the order
\* in which glob listed the files
get_terms(f, files) ==
    [i \in 1..Len(files) |->
        [id |-> Stem(Name(files[i])), term |-> TermRecord(f, files[i])]]

\* the orders in which glob can list a set of files
Orders(S) ==
    {o \in [1..Cardinality(S) -> S] : \A i, j \in 1..Cardinality(S) : i # j => o[i] # o[j]}

\* str.lower() on the atoms of a title
LowerChar(c) ==
    CASE c = "A" -> "a"
      [] c = "B" -> "b"
      [] OTHER -> c

Lower(s) == [i \in 1..Len(s) |-> LowerChar(s[i])]

\* ord() of a character atom
Ord(c) ==
    CASE c = "A" -> 65
      [] c = "B" -> 66
      [] c = "a" -> 97
      [] c = "b" -> 98
      [] OTHER -> 0

\* a < b on str
RECURSIVE StrLess(_, _)
StrLess(a, b) ==
    IF b = <<>> THEN FALSE
    ELSE IF a = <<>> THEN TRUE
    ELSE IF Ord(Head(a)) # Ord(Head(b)) THEN Ord(Head(a)) < Ord(Head(b))
    ELSE StrLess(Tail(a), Tail(b))

\* a variant of the sort key below that keeps the title's case
TitleKeyCaseSensitive(term) == IF Truthy(term.title) THEN term.title ELSE <<>>

\* key=lambda term: (term.get("title") or "").lower()
TitleKey(term) == Lower(IF Truthy(term.title) THEN term.title ELSE <<>>)

\* sorted(terms, key=...): stable, so a term goes after those whose key is not greater
RECURSIVE InsertSorted(_, _)
InsertSorted(sorted0, term) ==
    Bind(sorted0, LAMBDA sorted :
    IF sorted = <<>> THEN <<term>>
    ELSE IF StrLess(TitleKey(term), TitleKey(Head(sorted)))
         THEN <<term>> \o sorted
         ELSE <<Head(sorted)>> \o InsertSorted(Tail(sorted), term))

RECURSIVE SortedByTitle(_)
SortedByTitle(terms) ==
    IF terms = <<>> THEN <<>>
    ELSE InsertSorted(SortedByTitle(SubSeq(terms, 1, Len(terms) - 1)),
                      terms[Len(terms)])

TermLink(term) == <<"[">> \o term.title \o <<"](">> \o term.url \o <<")">>

\* terms_formatted: the links of the terms with a title and a url
RECURSIVE TermsFormatted(_)
TermsFormatted(terms_sorted) ==
    IF terms_sorted = <<>> THEN <<>>
    ELSE (IF Truthy(Head(terms_sorted).title) /\ Truthy(Head(terms_sorted).url)
          THEN <<TermLink(Head(terms_sorted))>> ELSE <<>>)
         \o TermsFormatted(Tail(terms_sorted))

\* sep.join(parts)
RECURSIVE StrJoin(_, _)
StrJoin(sep, parts) ==
    IF parts = <<>> THEN <<>>
    ELSE IF Len(parts) = 1 THEN parts[1]
    ELSE parts[1] \o sep \o StrJoin(sep, Tail(parts))

Br == <<"<br/>">>

Digits == {"0", "1", "2", "3", "4", "5", "6", "7", "8", "9"}

\* the atoms that are one character ("." of a pattern matches any of them)
Chars == Digits \cup {"/", ".", "-", "#", " ", "a", "A", "b", "B", "x"}

\* re.compile(r"^.*terms/MASTG-TERM-\d{4}.md").match(path)
TermPagePattern(path) ==
    \E i \in 1..Len(path) :
        /\ StartsAt(path, <<"terms", "/", "MASTG-TERM-">>, i)
        /\ i + 8 <= Len(path)
        /\ \A k \in 3..6 : path[i + k] \in Digits
        /\ path[i + 7] \in Chars
        /\ path[i + 8] = "md"

\* config.get("terms", {}) as a sequence of items
ConfigTerms(cfg) == IF "terms" \in DOMAIN cfg THEN cfg.terms ELSE <<>>

\* term_id in terms
TermsHas(items, term_id) == \E i \in 1..Len(items) : items[i].id = term_id

\* terms[term_id]: a later item of the same id replaces an earlier one
TermsGet(items, term_id) ==
    LET hits == {i \in 1..Len(items) : items[i].id = term_id}
    IN items[CHOOSE i \in hits : \A j \in hits : j <= i].term

\* the section appended to a term page
References(term) ==
    <<"#", "#", " ", "Other Framework References">>
    \o (IF Truthy(term.nist_url)
        THEN <<NL, NL, "[", "NIST", "](">> \o term.nist_url \o <<")">> ELSE <<>>)
    \o (IF Truthy(term.cwe_url)
        THEN <<NL, NL, "[", "CWE", "](">> \o term.cwe_url \o <<")">> ELSE <<>>)

\* on_page_markdown(markdown, page, config) of resolve_terms.py
terms_on_page_markdown(markdown, path, cfg) ==
    IF EndsWith(path, <<"terms", "/", "index", ".", "md">>)
    THEN LET items        == ConfigTerms(cfg)
             terms        == [i \in 1..Len(items) |-> items[i].term]
             terms_sorted == SortedByTitle(terms)
         IN markdown \o Br \o StrJoin(Br, TermsFormatted(terms_sorted))
    ELSE IF path # <<>> /\ TermPagePattern(path)
    THEN LET terms   == ConfigTerms(cfg)
             term_id == Stem(Name(path))
         IN IF /\ TermsHas(terms, term_id)
               /\ \/ Truthy(TermsGet(terms, term_id).nist_url)
                  \/ Truthy(TermsGet(terms, term_id).cwe_url)
            THEN markdown \o <<NL, NL, NL>> \o References(TermsGet(terms, term_id))
            ELSE markdown
    ELSE markdown

-----------------------------------------------------------------------------
(* add-checklists-banner.py *)

checklists_banner ==
    <<NL, "!!! info \"Checklists Updated (June 2025)\"", NL,
      "    The checklists now include **all MASTG tests**, as well as updated mappings to the new [MAS profiles](https://mas.owasp.org/MASTG/0x03b-Testing-Profiles/).",
      NL>>

ChecklistMarker == <<"checklists", "/", "MASVS-">>

\* a variant of the hook below that looks for the marker only at the start of the path
BannerAtPathStart(markdown, path) ==
    IF StartsWith(path, ChecklistMarker)
    THEN <<NL>> \o checklists_banner \o <<NL, NL>> \o markdown
    ELSE markdown

\* on_page_markdown(markdown, page) of add-checklists-banner.py
banner_on_page_markdown(markdown, path) ==
    IF Contains(path, ChecklistMarker)
    THEN <<NL>> \o checklists_banner \o <<NL, NL>> \o markdown
    ELSE markdown

-----------------------------------------------------------------------------
(* fix-serve-watch.py *)

\* config.get('extra', {}).get(key)
ExtraGet(cfg, key) ==
    IF "extra" \in DOMAIN cfg /\ key \in DOMAIN cfg.extra THEN cfg.extra[key] ELSE None

\* server.unwatch(path) inside try/except ValueError
Unwatch(w, path) == w \ {path}

\* a variant of the watch below that watches whatever the store holds under the key
WatchRepoWhenPresent(w, cfg, key) ==
    IF "extra" \in DOMAIN cfg /\ key \in DOMAIN cfg.extra
    THEN w \cup {cfg.extra[key]} ELSE w

\* if config.get('extra', {}).get(key): server.watch(config['extra'][key])
WatchRepo(w, cfg, key) ==
    IF Truthy(ExtraGet(cfg, key)) THEN w \cup {cfg.extra[key]} ELSE w

\* on_serve(server, config): the server's watch list afterwards
on_serve(w, cfg) ==
    WatchRepo(WatchRepo(WatchRepo(Unwatch(w, DocsDir), cfg, "mastg_repo"),
                        cfg, "masvs_repo"),
              cfg, "maswe_repo")

-----------------------------------------------------------------------------
(* The inputs: external repositories, the local docs tree, term pages *)

Repos == {"mastg", "maswe", "masvs"}

\* a file system from a set of <<path, content>> pairs and a set of directories
MkFs(pairs, dirs) ==
    LET paths == {x[1] : x \in pairs}
    IN [dirs  |-> dirs \cup UNION {Ancestors(d) : d \in dirs}
                       \cup UNION {Ancestors(q) : q \in paths},
        files |-> [q \in paths |-> (CHOOSE x \in pairs : x[1] = q)[2]]]

PageText == <<"src=\"", "Images", "/", "pic", " ", "Document", "/", "ref">>
MasvsText == <<"images", "/", "pic">>

\* a controls page of the MASVS repository with control text t and description d
ControlSource(t, d) ==
    <<"#", " ", "title", NL, NL>> \o ControlHeading \o t
    \o <<NL, NL>> \o DescriptionHeading \o d

\* a term page: front matter with the keys that have a value
TermSource(title, nist, cwe) ==
    <<"---", NL>>
    \o (IF title = None THEN <<>> ELSE <<"title", ":", " ">> \o title \o <<NL>>)
    \o (IF nist = None THEN <<>> ELSE <<"nist", ":", " ">> \o nist \o <<NL>>)
    \o (IF cwe = None THEN <<>> ELSE <<"cwe", ":", " ">> \o cwe \o <<NL>>)
    \o <<"---", NL, "body">>

MastgTree(root, sc) ==
    [pairs |->
        {<<Join(Join(root, MastgDirectories[i]), Md(<<"page">>)), PageText>> :
            i \in {j \in 1..Len(MastgDirectories) :
                      MastgDirectories[j] \notin sc.mastgMissing}}
        \cup (IF <<"tools">> \in sc.mastgMissing THEN {}
              ELSE {<<Join(root, <<"tools", "/", "node_modules", "/", "pkg", ".", "md">>),
                      PageText>>})
        \cup (IF sc.testsBeta
              THEN {<<Join(root, <<"tests-beta", "/", "android", "/", "beta", ".", "md">>),
                      PageText>>}
              ELSE {})
        \cup (IF sc.mastgDoc = "Document"
              THEN {<<Join(root, <<"Document", "/", "index", ".", "md">>), PageText>>,
                    <<Join(root, <<"Document", "/", "0x0", "1-Foreword", ".", "md">>),
                      PageText>>,
                    <<Join(root, <<"Document", "/", "Images", "/", "pic", ".", "png">>),
                      <<"png">> >>}
              ELSE IF sc.mastgDoc = "docs"
              THEN {<<Join(root, <<"docs", "/", "index", ".", "md">>), PageText>>}
              ELSE {}),
     dirs |-> {root}]

MasweTree(root, sc) ==
    [pairs |-> IF sc.maswe
               THEN {<<Join(root, <<"weaknesses", "/", "MASWE-0001", ".", "md">>),
                       PageText>>}
               ELSE {},
     dirs |-> {root}]

MasvsTree(root, sc) ==
    [pairs |->
        (IF sc.masvsDocument = "missing" THEN {}
         ELSE {<<Join(root, <<"Document", "/", "index", ".", "md">>), MasvsText>>})
        \cup (IF sc.masvsDocument \in {"full", "named"}
              THEN {<<Join(root, <<"Document", "/", "images", "/", "pic", ".", "png">>),
                      <<"png">> >>}
              ELSE {})
        \cup (IF sc.masvsDocument = "named"
              THEN {<<Join(root, <<"Document", "/", "05-", "controls", "-overview", ".", "md">>),
                      MasvsText>>}
              ELSE {})
        \cup (IF sc.masvsControls
              THEN {<<Join(root, <<"controls", "/", "MASVS-STORAGE-1", ".", "md">>),
                      ControlSource(sc.controlT, sc.controlD)>>,
                    <<Join(root, <<"controls", "/", "sub", "/", "note", ".", "md">>),
                      MasvsText>>}
              ELSE {}),
     dirs |-> {root}]

TermPath(digits) == Join(TermsDir, Md(<<"MASTG-TERM-">> \o digits))

\* the site's own docs tree: its term pages, a page the merge never replaces,
\* and what an earlier build left in a destination
LocalTree(sc) ==
    [pairs |->
        {<<TermPath(t.digits), TermSource(t.title, t.nist, t.cwe)>> : t \in sc.terms}
        \cup {<<Join(DocsDir, <<"MASTG", "/", "notes", ".", "md">>), sc.leftover>>,
              <<Join(DocsDir, <<"MASWE", "/", "stale", ".", "md">>), PageText>>},
     dirs |-> {DocsDir, TermsDir}]

RepoTree(repo, root, sc) ==
    IF repo = "mastg" THEN MastgTree(root, sc)
    ELSE IF repo = "maswe" THEN MasweTree(root, sc)
    ELSE MasvsTree(root, sc)

\* every repository present at each of the candidate places sc.cands names; a
\* place of sc.fileCands holds a plain file of the repository's name instead
BuildFs(sc) ==
    LET here  ==
            {RepoTree(x[1], RepoCandidates(<<x[1]>>)[x[2]], sc) :
                x \in {y \in Repos \X (1..3) : y[2] \in sc.cands[y[1]]}}
                \cup {LocalTree(sc)}
        plain ==
            {<<RepoCandidates(<<x[1]>>)[x[2]], <<"file">> >> :
                x \in {y \in Repos \X (1..3) : y[2] \in sc.fileCands[y[1]]}}
    IN MkFs(plain \cup UNION {t.pairs : t \in here}, UNION {t.dirs : t \in here})

Term(digits, title, nist, cwe) ==
    [digits |-> digits, title |-> title, nist |-> nist, cwe |-> cwe]

NistUrl == <<"https:", "/", "/", "nist", "/", "term">>
CweUrl == <<"https:", "/", "/", "cwe", "/", "79">>

\* everything present: mastg under repos/, maswe under ../, masvs under ./
BaseScenario ==
    [cands         |-> [r \in Repos |-> IF r = "mastg" THEN {1}
                                        ELSE IF r = "maswe" THEN {2} ELSE {3}],
     fileCands     |-> [r \in Repos |-> {}],
     mastgMissing  |-> {},
     testsBeta     |-> TRUE,
     mastgDoc      |-> "Document",
     maswe         |-> TRUE,
     masvsDocument |-> "full",
     masvsControls |-> TRUE,
     controlT      |-> <<"t">>,
     controlD      |-> <<"d">>,
     leftover      |-> PageText,
     terms         |-> {Term(<<"0", "0", "0", "1">>, <<"a">>, NistUrl, None)}]

MissingChoices ==
    {{}} \cup {{MastgDirectories[i]} : i \in 1..Len(MastgDirectories)}
         \cup {{MastgDirectories[i] : i \in 1..Len(MastgDirectories)}}

\* which configured subpaths the external repositories hold
StructureScenarios ==
    {[BaseScenario EXCEPT !.mastgMissing = x[1], !.testsBeta = x[2], !.maswe = x[3],
                          !.masvsDocument = x[4], !.masvsControls = x[5]] :
        x \in MissingChoices \X BOOLEAN \X BOOLEAN
                \X {"missing", "noimages", "full", "named"} \X BOOLEAN}
    \cup {[BaseScenario EXCEPT !.mastgDoc = x[1], !.testsBeta = x[2]] :
            x \in {"Document", "docs", "none"} \X BOOLEAN}

\* which candidate places hold each repository
LocateScenarios ==
    {[BaseScenario EXCEPT !.cands = c] : c \in [Repos -> SUBSET (1..3)]}
    \cup {[BaseScenario EXCEPT !.cands = [r \in Repos |-> x[1]],
                               !.fileCands = [r \in Repos |-> x[2]]] :
            x \in {y \in (SUBSET (1..3)) \X (SUBSET (1..3)) : y[1] \cap y[2] = {}}}

\* the text of the controls page
ControlScenarios ==
    {[BaseScenario EXCEPT !.controlT = x[1], !.controlD = x[2]] :
        x \in SeqsUpTo({"t", NL, "#"}, MaxControlLen - 1)
                \X SeqsUpTo({"d", NL}, MaxControlLen)}

\* the text of a local page the merge does not replace
LeftoverScenarios ==
    {[BaseScenario EXCEPT !.leftover = t] :
        t \in SeqsUpTo({"Document", "/"}, MaxLeftoverLen)}

NoPage == [hook |-> "none", path |-> <<>>, markdown |-> <<>>, out |-> <<>>]

NoLog == [entries |-> <<>>, err |-> NoErr]

\* the start of a build; mkdocs has registered the docs directory with the server
Start(sc) ==
    /\ scenario = sc
    /\ fs = BuildFs(sc)
    /\ config = [extra |-> [k \in {} |-> None]]
    /\ phase = "start"
    /\ builds = 0
    /\ prev = EmptyFs
    /\ log = NoLog
    /\ watched = {DocsDir}
    /\ served = FALSE
    /\ page = NoPage

Init == \E sc \in StructureScenarios : Start(sc)

InitLocate == \E sc \in LocateScenarios : Start(sc)

InitControls == \E sc \in ControlScenarios : Start(sc)

InitLeftover == \E sc \in LeftoverScenarios : Start(sc)

\* the page hooks' inputs
Markdowns == {<<>>, <<"m">>, <<"m", NL, "m">>}

BannerPaths == SeqsUpTo({"checklists", "/", "MASVS-", "x"}, MaxPathLen)

\* what follows "MASTG-TERM-" in the name of a term page: four digits, five,
\* three, and the names "0001-mdm" and "00012md"
TermIdPool ==
    {<<"0", "0", "0", "1">>, <<"0", "0", "0", "1", "1">>, <<"0", "0", "1">>,
     <<"0", "0", "0", "1", "-", "md", "m">>, <<"0", "0", "0", "1", "2", "md">>}

TermPagePaths ==
    {<<"MASTG", "/", "terms", "/">> \o Md(<<"MASTG-TERM-">> \o d) : d \in TermIdPool}
    \cup {<<"MASTG", "/", "terms", "/", "index", ".", "md">>,
          <<"terms", "/", "index", ".", "md">>,
          <<"MASTG", "/", "index", ".", "md">>,
          <<"MASTG", "/", "tests", "/", "page", ".", "md">>}

TitlePool == {None, <<"a">>, <<"A">>, <<"B">>, <<"b">>, <<"a", "B">>, <<"A", "b">>}

\* the sets of at most n terms with digits from ids, a title from titles and
\* reference URLs from nists and cwes
RECURSIVE TermSets(_, _, _, _, _)
TermSets(n, ids, titles, nists, cwes) ==
    IF n = 0 \/ ids = {} THEN {{}}
    ELSE LET d == CHOOSE x \in ids : TRUE
             rest == TermSets(n, ids \ {d}, titles, nists, cwes)
             less == TermSets(n - 1, ids \ {d}, titles, nists, cwes)
         IN rest \cup {ts \cup {Term(d, x[1], x[2], x[3])} :
                          ts \in less, x \in titles \X nists \X cwes}

\* the term pages of the glossary: titles vary
GlossaryScenarios ==
    {[BaseScenario EXCEPT !.terms = ts] :
        ts \in TermSets(MaxTerms, {<<"0", "0", "0", "1">>, <<"0", "0", "1", "0">>,
                                   <<"0", "0", "1", "1">>}, TitlePool, {None}, {None})}

\* the term pages with references: identifiers and reference URLs vary
ReferenceScenarios ==
    {[BaseScenario EXCEPT !.terms = ts] :
        ts \in TermSets(MaxTerms, TermIdPool, {<<"a">>}, {None, NistUrl}, {None, CweUrl})}

\* after the merge, before the term index is built: the docs tree holds the term pages
InitPages ==
    \E sc \in GlossaryScenarios \cup ReferenceScenarios :
        /\ scenario = sc
        /\ fs = MkFs(LocalTree(sc).pairs, LocalTree(sc).dirs)
        /\ config = [extra |-> [k \in {} |-> None]]
        /\ phase = "merged"
        /\ builds = 1
        /\ prev = EmptyFs
        /\ log = NoLog
        /\ watched = {DocsDir}
        /\ served = FALSE
        /\ page = NoPage

\* a page is rendered: no state of the build matters to the banner
InitBanner ==
    /\ scenario = BaseScenario
    /\ fs = EmptyFs
    /\ config = [extra |-> [k \in {} |-> None]]
    /\ phase = "ready"
    /\ builds = 1
    /\ prev = EmptyFs
    /\ log = NoLog
    /\ watched = {DocsDir}
    /\ served = FALSE
    /\ page = NoPage

\* what the configuration store may hold under a repository key: nothing, None,
\* an empty value, or a place locate_external_repo can return
RepoKeys == {"mastg_repo", "maswe_repo", "masvs_repo"}

KeyRepo(k) == IF k = "mastg_repo" THEN <<"mastg">>
              ELSE IF k = "maswe_repo" THEN <<"maswe">> ELSE <<"masvs">>

StoredValues(k) == {None, <<>>} \cup {RepoCandidates(KeyRepo(k))[i] : i \in 1..3}

Extras ==
    UNION {{e \in [K -> UNION {StoredValues(k) : k \in K}] :
               \A k \in K : e[k] \in StoredValues(k)} : K \in SUBSET RepoKeys}

ServeConfigs ==
    {[extra |-> e, terms |-> <<>>] : e \in Extras} \cup {[terms |-> <<>>]}

WatchPool == {DocsDir, <<"overrides">>, <<"repos", "/", "mastg">>, <<".", ".", "/", "maswe">>}

\* serve mode, after the first build
InitServe ==
    \E c \in ServeConfigs, w \in SUBSET WatchPool :
        /\ scenario = [config |-> c, watched |-> w]
        /\ fs = EmptyFs
        /\ config = c
        /\ phase = "ready"
        /\ builds = 1
        /\ prev = EmptyFs
        /\ log = NoLog
        /\ watched = w
        /\ served = FALSE
        /\ page = NoPage

-----------------------------------------------------------------------------
(* The hooks as mkdocs runs them *)

\* the controls pages the merge may have rewritten when it aborts on one
WrittenChoices(f, cfg) ==
    Bind(combine_on_pre_build([fs |-> f, log |-> <<>>, err |-> NoErr], cfg, {}),
         LAMBDA r :
       IF r.st.err.what = "AttributeError"
       THEN SUBSET RglobControlsMd(r.st.fs, Join(DocsDir, <<"MASVS">>))
       ELSE {{}})

\* on_pre_build of combine-repos.py (priority 0: the first pre-build hook)
CombineOnPreBuild ==
    /\ phase \in {"start", "ready"}
    /\ builds < MaxBuilds
    /\ \E written \in WrittenChoices(fs, config) :
        \E r \in {combine_on_pre_build([fs |-> fs, log |-> <<>>, err |-> NoErr],
                                       config, written)} :
           /\ fs' = r.st.fs
           /\ config' = r.config
           /\ log' = [entries |-> r.st.log, err |-> r.st.err]
           /\ phase' = IF r.st.err.raised THEN "aborted" ELSE "merged"
           /\ builds' = IF r.st.err.raised THEN builds ELSE builds + 1
    /\ prev' = Subtree(fs, DocsDir)
    /\ UNCHANGED <<watched, served, page, scenario>>

\* on_pre_build of resolve_terms.py (priority -10: after the merge)
TermsOnPreBuild ==
    /\ phase = "merged"
    /\ \E files \in Orders(GlobTermFiles(fs)) :
        config' = [k \in (DOMAIN config) \cup {"terms"} |->
                      IF k = "terms" THEN get_terms(fs, files) ELSE config[k]]
    /\ phase' = "ready"
    /\ UNCHANGED <<fs, builds, prev, log, watched, served, page, scenario>>

\* on_serve of fix-serve-watch.py: once, after the first build
OnServe ==
    /\ phase = "ready"
    /\ ~served
    /\ watched' = on_serve(watched, config)
    /\ served' = TRUE
    /\ UNCHANGED <<fs, config, phase, builds, prev, log, page, scenario>>

\* on_page_markdown of add-checklists-banner.py on one page
BannerOnPageMarkdown ==
    /\ phase = "ready"
    /\ page = NoPage
    /\ \E path \in BannerPaths, markdown \in Markdowns :
        page' = [hook |-> "banner", path |-> path, markdown |-> markdown,
                 out |-> banner_on_page_markdown(markdown, path)]
    /\ UNCHANGED <<fs, config, phase, builds, prev, log, watched, served, scenario>>

\* on_page_markdown of resolve_terms.py on one page
TermsOnPageMarkdown ==
    /\ phase = "ready"
    /\ page = NoPage
    /\ \E path \in TermPagePaths, markdown \in Markdowns :
        page' = [hook |-> "terms", path |-> path, markdown |-> markdown,
                 out |-> terms_on_page_markdown(markdown, path, config)]
    /\ UNCHANGED <<fs, config, phase, builds, prev, log, watched, served, scenario>>

Next == CombineOnPreBuild \/ TermsOnPreBuild \/ OnServe

NextPages == TermsOnPreBuild \/ TermsOnPageMarkdown

NextBanner == BannerOnPageMarkdown

NextServe == OnServe

Spec == Init /\ [][Next]_vars

SpecLocate == InitLocate /\ [][Next]_vars

SpecControls == InitControls /\ [][Next]_vars

SpecLeftover == InitLeftover /\ [][Next]_vars

SpecPages == InitPages /\ [][NextPages]_vars

SpecBanner == InitBanner /\ [][NextBanner]_vars

SpecServe == InitServe /\ [][NextServe]_vars

-----------------------------------------------------------------------------
(* Properties *)

\* C1: locate_external_repo returns the first of repos/<name>, ../<name>,
\* ./<name> that is a directory; when none of the three is a directory the
\* merge aborts, for the first of mastg, maswe, masvs that is missing, with an
\* error that names the three attempted paths.  (SpecLocate)
C1_LocateFirstCandidateOrAbort ==
    phase # "start" =>
        LET order    == <<"mastg", "maswe", "masvs">>
            first(r) == CHOOSE i \in scenario.cands[r] :
                            \A j \in scenario.cands[r] : i <= j
            place(r) == IF first(r) = 1 THEN <<"repos", "/", r>>
                        ELSE IF first(r) = 2 THEN <<".", ".", "/", r>> ELSE <<r>>
            missing  == {i \in 1..3 : scenario.cands[order[i]] = {}}
            stop     == IF missing = {} THEN 4
                        ELSE CHOOSE i \in missing : \A j \in missing : i <= j
            using    == SelectSeq(log.entries, LAMBDA e : e.event = "using")
        IN /\ Len(using) = stop - 1
           /\ \A i \in 1..(stop - 1) : using[i].path = place(order[i])
           /\ IF stop = 4
              THEN /\ phase # "aborted"
                   /\ ~log.err.raised
                   /\ config.extra["maswe_repo"] = place("maswe")
                   /\ config.extra["masvs_repo"] = place("masvs")
              ELSE /\ phase = "aborted"
                   /\ log.err.what = "Could not find repository"
                   /\ log.err.paths = << <<"repos", "/", order[stop]>>,
                                         <<".", ".", "/", order[stop]>>,
                                         <<order[stop]>> >>

\* mastg found at ../mastg although ./mastg is a directory too, maswe found,
\* masvs nowhere: the merge aborts naming the three masvs paths
C1_Witness ==
    /\ phase = "aborted"
    /\ log.err.paths = << <<"repos", "/", "masvs">>, <<".", ".", "/", "masvs">>,
                          <<"masvs">> >>
    /\ Len(log.entries) >= 2
    /\ log.entries[1].event = "using"
    /\ log.entries[1].path = <<".", ".", "/", "mastg">>
    /\ IsDir(fs, <<"mastg">>)
    /\ ~IsDir(fs, <<"repos", "/", "mastg">>)

\* C2: for every configured source subpath that its located repository lacks
\* (MASWE weaknesses, MASVS Document and controls, each MASTG directory), the
\* merge does not abort and leaves the destination directory existing and
\* empty.  (Spec)
C2_MissingSubpathLeavesEmptyDestination ==
    phase # "start" =>
        LET missing ==
                (IF scenario.maswe THEN {} ELSE {<<"docs", "/", "MASWE">>})
                \cup (IF scenario.masvsDocument = "missing"
                      THEN {<<"docs", "/", "MASVS">>} ELSE {})
                \cup (IF scenario.masvsControls THEN {}
                      ELSE {<<"docs", "/", "MASVS", "/", "controls">>})
                \cup {<<"docs", "/", "MASTG", "/">> \o d : d \in scenario.mastgMissing}
        IN \A dest \in missing :
              /\ phase # "aborted"
              /\ IsDir(fs, dest)
              /\ Children(fs, dest) = {}

\* C3: whenever a page hook or on_serve can run after a successful pre-build
\* phase, the configuration store holds the term index and a non-empty
\* location for each of mastg, maswe and masvs.  (Spec)
C3_StorePopulatedBeforePages ==
    phase = "ready" =>
        /\ "terms" \in DOMAIN config
        /\ \A k \in {"mastg_repo", "maswe_repo", "masvs_repo"} :
              /\ k \in DOMAIN config.extra
              /\ config.extra[k] # None
              /\ config.extra[k] # <<>>

\* C4: a controls page with a well-formed "## Control" section of text T and a
\* "## Description" section of text D, D of any number of lines, is rewritten
\* to the heading with the file stem, the styled paragraph with T, the blue
\* rule, then D, up to whitespace trimming.  (SpecControls)
C4_ControlsPageKeepsDescription ==
    (/\ phase \in {"merged", "ready"}
     /\ \A i \in 1..Len(scenario.controlT) : scenario.controlT[i] # "#"
     /\ scenario.controlT # <<>>
     /\ Strip(scenario.controlT) = scenario.controlT
     /\ scenario.controlD # <<>>
     /\ Strip(scenario.controlD) = scenario.controlD)
    => Strip(fs.files[<<"docs", "/", "MASVS", "/", "controls", "/",
                        "MASVS-STORAGE-1", ".", "md">>])
       = <<"#", " ", "MASVS-STORAGE-1", NL, NL, ParaOpen>>
         \o Strip(scenario.controlT)
         \o <<ParaClose, NL, NL, BlueRule, NL, NL>>
         \o scenario.controlD

\* C5: a second merge with unchanged external sources leaves the local docs
\* tree as the first merge left it, whatever the docs tree held at the start.
\* (SpecLeftover)
C5_SecondMergeChangesNothing ==
    (builds = 2 /\ phase = "merged") => Subtree(fs, DocsDir) = prev

\* C6 as stated: on a page whose path contains "checklists/MASVS-" the output
\* starts with the banner block, then two newlines, then the markdown; on
\* every other page the output is the input.  (SpecBanner)
C6_OutputStartsWithBanner ==
    page.hook = "banner" =>
        page.out =
            IF \E i \in 1..(Len(page.path) - 2) :
                  /\ page.path[i] = "checklists"
                  /\ page.path[i + 1] = "/"
                  /\ page.path[i + 2] = "MASVS-"
            THEN checklists_banner \o <<NL, NL>> \o page.markdown
            ELSE page.markdown

\* C6 amended: on a page whose path contains "checklists/MASVS-" the output is
\* one newline, then the banner block, then two newlines, then the markdown;
\* on every other page the output is the input.  (SpecBanner)
C6_OutputIsNewlineBannerMarkdown ==
    page.hook = "banner" =>
        page.out =
            IF \E i \in 1..(Len(page.path) - 2) :
                  /\ page.path[i] = "checklists"
                  /\ page.path[i + 1] = "/"
                  /\ page.path[i + 2] = "MASVS-"
            THEN <<NL>> \o checklists_banner \o <<NL, NL>> \o page.markdown
            ELSE page.markdown

\* a checklist page below a directory gets the banner in front of its text
C6_Witness ==
    /\ page.hook = "banner"
    /\ page.path = <<"x", "checklists", "/", "MASVS-">>
    /\ page.markdown = <<"m">>
    /\ Len(page.out) = Len(checklists_banner) + 4
    /\ page.out[1] = NL

\* C7: on the glossary index page, with terms of distinct titles, the output
\* is the markdown followed by a "<br/>"-separated list with exactly one link
\* per term that has a title, in case-insensitive ascending order of title;
\* terms without a title add nothing.  (SpecPages)
C7_GlossaryLinksSortedByTitle ==
    (/\ page.hook = "terms"
     /\ EndsWith(page.path, <<"terms", "/", "index", ".", "md">>)
     /\ \A t, u \in scenario.terms : t.title = u.title => t = u)
    => LET titled  == {t \in scenario.terms : t.title # None}
           link(t) == <<"[">> \o t.title
                      \o <<"](", "/", "MASTG", "/", "terms", "/", "MASTG-TERM-">>
                      \o t.digits \o <<"/", ")">>
       IN \E o \in Orders(titled) :
             /\ \A i, j \in 1..Len(o) :
                   i < j => ~StrLess(Lower(o[j].title), Lower(o[i].title))
             /\ page.out = page.markdown \o Br
                           \o StrJoin(Br, [i \in 1..Len(o) |-> link(o[i])])

\* the term titled "a" is listed before the term titled "B"
C7_Witness ==
    /\ page.hook = "terms"
    /\ page.path = <<"MASTG", "/", "terms", "/", "index", ".", "md">>
    /\ page.markdown = <<"m">>
    /\ page.out = <<"m", "<br/>",
                    "[", "a", "](", "/", "MASTG", "/", "terms", "/", "MASTG-TERM-",
                    "0", "0", "1", "0", "/", ")", "<br/>",
                    "[", "B", "](", "/", "MASTG", "/", "terms", "/", "MASTG-TERM-",
                    "0", "0", "0", "1", "/", ")">>

\* C8: on the page of a term with a four-digit identifier that is in the index
\* and has a reference URL, the output is the markdown followed by the "Other
\* Framework References" section with one link line per URL present, NIST
\* before CWE; on a term page without index entry or URL, and on every page
\* that is neither the glossary index nor a four-digit term page, the output
\* is the input.  A four-digit term page is one named MASTG-TERM-dddd.md.
\* (SpecPages)
C8_TermPageReferences ==
    (/\ page.hook = "terms"
     /\ ~EndsWith(page.path, <<"terms", "/", "index", ".", "md">>))
    => LET hits == {t \in scenario.terms :
                       /\ Len(t.digits) = 4
                       /\ page.path = <<"MASTG", "/", "terms", "/", "MASTG-TERM-">>
                                      \o t.digits \o <<".", "md">>
                       /\ (t.nist # None \/ t.cwe # None)}
       IN IF hits = {} THEN page.out = page.markdown
          ELSE \E t \in hits :
                  page.out =
                      page.markdown
                      \o <<NL, NL, NL, "#", "#", " ", "Other Framework References">>
                      \o (IF t.nist # None
                          THEN <<NL, NL, "[", "NIST", "](">> \o t.nist \o <<")">>
                          ELSE <<>>)
                      \o (IF t.cwe # None
                          THEN <<NL, NL, "[", "CWE", "](">> \o t.cwe \o <<")">>
                          ELSE <<>>)

\* C9: after on_serve, for any prior watch list and any store, "docs" is not
\* watched, every location recorded non-empty under mastg_repo, masvs_repo or
\* maswe_repo is watched, nothing else was added or removed, and the store is
\* as it was.  (SpecServe)
C9_ServeWatchesRecordedRepos ==
    served =>
        LET recorded == {k \in {"mastg_repo", "masvs_repo", "maswe_repo"} :
                            /\ "extra" \in DOMAIN scenario.config
                            /\ k \in DOMAIN scenario.config.extra
                            /\ scenario.config.extra[k] # None
                            /\ scenario.config.extra[k] # <<>>}
            places   == {scenario.config.extra[k] : k \in recorded}
        IN /\ <<"docs">> \notin watched
           /\ places \subseteq watched
           /\ watched = (scenario.watched \ {<<"docs">>}) \cup places
           /\ config = scenario.config

\* docs was watched, mastg_repo holds None, masvs_repo is absent, maswe_repo is
\* recorded: only the maswe location is added
C9_Witness ==
    /\ served
    /\ scenario.watched = {<<"docs">>, <<"overrides">>}
    /\ "extra" \in DOMAIN config
    /\ DOMAIN config.extra = {"mastg_repo", "maswe_repo"}
    /\ config.extra["mastg_repo"] = None
    /\ config.extra["maswe_repo"] = <<".", ".", "/", "maswe">>
    /\ watched = {<<"overrides">>, <<".", ".", "/", "maswe">>}

\* C10: a merged MASVS markdown file has "images/" rewritten to
\* "../../../assets/MASVS/Images/" if and only if it lies under the controls
\* directory; every other one has it rewritten to "../../assets/MASVS/Images/".
\* (Spec)
C10_DeepPrefixIffUnderControls ==
    phase \in {"merged", "ready"} =>
        LET local    == <<"docs", "/", "MASVS">>
            controls == <<"docs", "/", "MASVS", "/", "controls">>
            repo     == config.extra["masvs_repo"]
            deep     == <<".", ".", "/", ".", ".", "/", ".", ".", "/",
                          "assets", "/", "MASVS", "/", "Images", "/">>
            shallow  == <<".", ".", "/", ".", ".", "/",
                          "assets", "/", "MASVS", "/", "Images", "/">>
        IN \A p \in RglobMd(fs, local) \ RglobControlsMd(fs, local) :
              fs.files[p] =
                  IF Under(p, controls)
                  THEN StrReplace(fs.files[repo \o <<"/", "controls">>
                                           \o RelTail(p, controls)],
                                  <<"images", "/">>, deep)
                  ELSE StrReplace(fs.files[repo \o <<"/", "Document">>
                                           \o RelTail(p, local)],
                                  <<"images", "/">>, shallow)

====
